---- MODULE Spec2Model ----
(***************************************************************************)
(* Model of the retry engine of advanced-retry: handleRetry,               *)
(* abortSignalAny, executeWithRetry (src/src/retry.ts), the delayed        *)
(* resolver (src/src/resolver/delayed-retry-resolver.ts) and the custom    *)
(* resolver (customRetryErrorResolver).                                    *)
(*                                                                         *)
(* One behaviour is one call of executeWithRetry.  A step is one task of   *)
(* the JavaScript event loop together with the microtasks it triggers:     *)
(* the call itself, the settling of the operation that is in flight, the   *)
(* settling of the resolver that is in flight, the overall-timeout timer   *)
(* firing, and the caller aborting the external signal.                    *)
(***************************************************************************)
EXTENDS Integers, Sequences, FiniteSets, TLC

\* ---------------------------------------------------------------- bounds
MaxChain == 3          \* longest resolver chain drawn
MaxRetries == 1        \* largest maxRetries of a delayed resolver drawn
MaxAttempts == 3       \* a custom callback grants retries only below this many attempts
NumOperations == 2          \* most operations given to executeWithRetryAll
MaxFilters == 3             \* most members of a filter combinator
MaxDelayMs == 2             \* largest number drawn for a delay configuration field

\* ------------------------------------------------------------ value space
Undefined == "undefined"
None == << >>                       \* an optional number that is undefined
Some(n) == << n >>                  \* an optional number that is defined

NoError == [kind |-> "none", attempt |-> 0]
OperationError(n) == [kind |-> "operation", attempt |-> n]   \* raised by attempt n
AbortedError == [kind |-> "Operation aborted", attempt |-> 0]
TimedOutError == [kind |-> "Operation timed out", attempt |-> 0]
TypeError == [kind |-> "TypeError", attempt |-> 0]
CallbackError == [kind |-> "callback", attempt |-> 0]
UnexpectedExitError == [kind |-> "Unexpected retry loop exit", attempt |-> 0]

ContextData == {Undefined, "d1"}
RetryContext(d) == [data |-> d]

\* The canHandleError argument of a resolver, by the shape toErrorFilter makes
\* of it: absent; a bare predicate or an object with a canHandle method
\* (allFilters, anyFilters); an object with a canHandleError method
\* (keywordErrorFilterAny, statusCodeErrorFilterAny, ...).
Filters == {"none", "canHandle", "canHandleError"}

\* Delayed resolvers drawn: maxRetries 0 or MaxRetries without a filter,
\* MaxRetries with one.
DelayResolvers ==
  [kind : {"delay"}, maxRetries : {0, MaxRetries}, filter : {"none"}]
    \cup [kind : {"delay"}, maxRetries : {MaxRetries}, filter : Filters \ {"none"}]
CustomResolvers ==
  [kind : {"custom"}, maxRetries : {0}, filter : Filters]
Resolvers == DelayResolvers \cup CustomResolvers
NoResolver == [kind |-> Undefined, maxRetries |-> 0, filter |-> "none"]

\* Chains drawn: any resolvers at the first two positions, resolvers without
\* a filter behind them.
Chains ==
  UNION {{c \in [1..n -> Resolvers] : \A i \in 3..n : c[i].filter = "none"} :
         n \in 0..MaxChain}

OverallTimeouts == {0, 1}           \* 0 (or undefined): no timer; 1: some duration > 0

VARIABLES
  errorResolvers,            \* the chain given to executeWithRetry
  throwOnUnrecoveredError,
  overallTimeout,
  externalAbortSignal,       \* "undefined" or "signal"
  sig,                       \* the three abort signals, their listeners, the timer
  pc,                        \* position of handleRetry
  resolverIndex, totalAttempts, currentResolver,
  remainingAttempts, resolverRetries, context,
  resolution,                \* the resolution the last resolver invocation returned
  caught,                    \* the error caught by the catch block in progress
  handled,                   \* how handleRetry ended: its return value or exception
  outcome,                   \* how executeWithRetry settled
  cleanups,                  \* number of cleanup() calls made
  opLog,                     \* history: outcome of every settled operation invocation
  resolverLog,               \* history: every resolver invocation
  opArgs,                    \* history: the context passed to every operation invocation
  resolutionLog,             \* history: how every resolver invocation ended
  calledAborted,             \* history: the external signal was aborted at the call
  timerFired,                \* history: the overall-timeout timer has fired
  lastAnswer,                \* history: what the filter or the callback answered in the last step
  operations,                \* executeWithRetryAll: the operations given
  runs,                      \* executeWithRetryAll: the executeWithRetry call of each
  allResult,                 \* executeWithRetryAll: the promise it returns
  filterEval,                \* a filter combinator and its evaluation
  delayEval                  \* a delayed resolver's configuration and the delay it sleeps

vars == << errorResolvers, throwOnUnrecoveredError, overallTimeout,
           externalAbortSignal, sig, pc, resolverIndex, totalAttempts,
           currentResolver, remainingAttempts, resolverRetries, context,
           resolution, caught, handled, outcome, cleanups, opLog, resolverLog,
           opArgs, resolutionLog, calledAborted, timerFired, lastAnswer,
           operations, runs, allResult, filterEval, delayEval >>

inputs == << errorResolvers, throwOnUnrecoveredError, overallTimeout,
             externalAbortSignal >>

\* The variables of executeWithRetryAll, which executeWithRetry leaves alone.
batch == << operations, runs, allResult >>

\* The variables of the filter and delay computations, which the engine
\* leaves alone.
pure == << filterEval, delayEval >>

\* Their value where no such computation is made.
NotEvaluated == << >>

\* ------------------------------------------------- abort signals and timer
\* sig: the timeout controller's signal, the caller's signal and the signal
\* derived by abortSignalAny, with the engine's listeners on each, the
\* timeoutId variable and whether the overall-timeout timer is pending.
FreshSignals ==
  [timeoutAborted |-> FALSE, externalAborted |-> FALSE, mergedAborted |-> FALSE,
   timeoutListeners |-> {}, externalListeners |-> {}, mergedListeners |-> {},
   timeoutId |-> FALSE, timerArmed |-> FALSE,
   abortEvents |-> 0]              \* history: abort events on the derived signal

\* abortController.abort() of the derived controller: the listeners on the
\* derived signal run once; timeoutAbortListener clears the pending timer.
AbortMerged(s) ==
  IF s.mergedAborted THEN s
  ELSE IF "timeoutAbortListener" \in s.mergedListeners /\ s.timeoutId
       THEN [s EXCEPT !.mergedAborted = TRUE, !.timerArmed = FALSE, !.timeoutId = FALSE,
                      !.abortEvents = @ + 1]
       ELSE [s EXCEPT !.mergedAborted = TRUE, !.abortEvents = @ + 1]

\* timeoutController.abort(): runs the listeners on the timeout signal.
AbortTimeout(s) ==
  IF s.timeoutAborted THEN s
  ELSE IF "abortListener" \in s.timeoutListeners
       THEN AbortMerged([s EXCEPT !.timeoutAborted = TRUE])
       ELSE [s EXCEPT !.timeoutAborted = TRUE]

\* The caller aborts the external signal: runs the listeners on it.
AbortExternal(s) ==
  IF s.externalAborted THEN s
  ELSE IF "abortListener" \in s.externalListeners
       THEN AbortMerged([s EXCEPT !.externalAborted = TRUE])
       ELSE [s EXCEPT !.externalAborted = TRUE]

\* abortSignalAny([timeoutController.signal, externalAbortSignal])
AbortSignalAnyListensOnly(s, external) ==
  LET s1 == [s EXCEPT !.timeoutListeners = @ \cup {"abortListener"}]
  IN IF external = Undefined THEN s1
     ELSE [s1 EXCEPT !.externalListeners = @ \cup {"abortListener"}]
AbortSignalAny(s, external) ==
  LET s1 == [s EXCEPT !.timeoutListeners = @ \cup {"abortListener"}]
      s2 == IF s1.timeoutAborted THEN AbortMerged(s1) ELSE s1
      s3 == IF external = Undefined THEN s2
            ELSE [s2 EXCEPT !.externalListeners = @ \cup {"abortListener"}]
  IN IF external # Undefined /\ s3.externalAborted THEN AbortMerged(s3) ELSE s3

\* The Promise executor's timer set-up; the first variant does not keep the
\* timer's id.
ArmTimeoutForgetsId(s, timeout) ==
  IF timeout # 0
  THEN [s EXCEPT !.timerArmed = TRUE,
                 !.mergedListeners = @ \cup {"timeoutAbortListener"}]
  ELSE s
ArmTimeout(s, timeout) ==
  IF timeout # 0
  THEN [s EXCEPT !.timeoutId = TRUE, !.timerArmed = TRUE,
                 !.mergedListeners = @ \cup {"timeoutAbortListener"}]
  ELSE s

\* cleanup()
CleanupKeepsTimer(s) ==
  LET s1 == [s EXCEPT !.mergedListeners = @ \ {"timeoutAbortListener"},
                      !.timeoutListeners = @ \ {"timeoutAbortListener"}]
  IN AbortTimeout([s1 EXCEPT !.mergedListeners = @ \ {"abortListener"}])
CleanupAbortsSources(s) ==
  LET s1 == [s EXCEPT !.mergedListeners = @ \ {"timeoutAbortListener"},
                      !.timeoutListeners = @ \ {"timeoutAbortListener"}]
      s2 == IF s1.timeoutId THEN [s1 EXCEPT !.timerArmed = FALSE] ELSE s1
      s3 == [s2 EXCEPT !.mergedListeners = @ \ {"abortListener"}]
  IN AbortExternal(AbortTimeout(s3))
Cleanup(s) ==
  LET s1 == [s EXCEPT !.mergedListeners = @ \ {"timeoutAbortListener"},
                      !.timeoutListeners = @ \ {"timeoutAbortListener"}]
      s2 == IF s1.timeoutId THEN [s1 EXCEPT !.timerArmed = FALSE] ELSE s1
      \* the abortListeners are removed from the derived signal, where they
      \* were never registered
      s3 == [s2 EXCEPT !.mergedListeners = @ \ {"abortListener"}]
  IN AbortTimeout(s3)

\* ------------------------------------------------------------ resolvers
\* remainingAttempts is a JavaScript number: NaN, written here as a number
\* outside those drawn, is neither > 0 nor <= 0.
NotANumber == -1000
Positive(x) == x # NotANumber /\ x > 0
AtMostZero(x) == x # NotANumber /\ x <= 0

\* What a resolver hands back to handleRetry.
Resolution(remaining, unrecoverable, data) ==
  [remainingAttempts |-> remaining, unrecoverable |-> unrecoverable,
   context |-> RetryContext(data)]

\* How a resolver invocation ended: by throwing, or with a resolution; of a
\* resolution, whether it asks for a retry under the same resolver and the
\* context it hands to that retry.
Resolved(res) ==
  LET retry == ~res.unrecoverable /\ Positive(res.remainingAttempts)
  IN [threw |-> FALSE, retry |-> retry,
      context |-> IF retry THEN res.context ELSE RetryContext(Undefined)]
ResolverThrew == [threw |-> TRUE, retry |-> FALSE, context |-> RetryContext(Undefined)]

\* Both resolvers' answer when the filter does not match.
Decline == Resolution(-1, FALSE, Undefined)

\* delayErrorResolver's answer after its sleep.
DelayRemainingCountsFirstTry(maxRetries, attempt) == maxRetries - attempt - 1
DelayRemainingGrantsOneMore(maxRetries, attempt) == maxRetries - attempt + 1
DelayRemaining(maxRetries, attempt) == maxRetries - attempt
DelayResolution(configuration, attempt) ==
  Resolution(DelayRemaining(configuration.maxRetries, attempt), FALSE, Undefined)

\* customRetryErrorResolver's answer: the callback's result r, its context wrapped.
CustomResolutionDropsContext(r) ==
  Resolution(r.remainingAttempts, r.unrecoverable, Undefined)
CustomResolution(r) ==
  Resolution(r.remainingAttempts, r.unrecoverable, r.context)

\* What a custom callback may return at a given number of attempts made.
CallbackRemaining(total) == IF total < MaxAttempts THEN {0, 1} ELSE {0}
CallbackResults(total) ==
  [remainingAttempts : CallbackRemaining(total), unrecoverable : BOOLEAN,
   context : ContextData]

\* toErrorFilter(p): the methods of the filter object the resolver then calls.
ToErrorFilter(filter) ==
  IF filter = "canHandleError" THEN {"canHandleError"} ELSE {"canHandle"}

\* The method each resolver calls on toErrorFilter(canHandleError).
FilterMethod(kind) == IF kind = "delay" THEN "canHandleError" ELSE "canHandle"

\* ---------------------------------------------------------- handleRetry
\* The locals of handleRetry and the histories, as one record, so that the
\* loop's code can be written as functions from locals to locals.
Running ==
  [state |-> "running", success |-> FALSE, result |-> None, error |-> NoError,
   totalAttempts |-> 0, via |-> "none"]

Locals ==
  [pc |-> pc, resolverIndex |-> resolverIndex, totalAttempts |-> totalAttempts,
   currentResolver |-> currentResolver, remainingAttempts |-> remainingAttempts,
   resolverRetries |-> resolverRetries, context |-> context,
   resolution |-> resolution, caught |-> caught,
   handled |-> handled, opLog |-> opLog, resolverLog |-> resolverLog,
   opArgs |-> opArgs, resolutionLog |-> resolutionLog]

\* return {result, totalAttempts, error, success}; via names the return statement.
ReturnCountsRetriesOnly(l, success, result, error, via) ==
  [l EXCEPT !.pc = "done",
            !.handled = [state |-> "returned", success |-> success,
                         result |-> result, error |-> error,
                         totalAttempts |-> l.totalAttempts - 1, via |-> via]]
Return(l, success, result, error, via) ==
  [l EXCEPT !.pc = "done",
            !.handled = [state |-> "returned", success |-> success,
                         result |-> result, error |-> error,
                         totalAttempts |-> l.totalAttempts, via |-> via]]

\* throw e (handleRetry's promise rejects with e).
Throw(l, e) ==
  [l EXCEPT !.pc = "done",
            !.handled = [state |-> "threw", success |-> FALSE, result |-> None,
                         error |-> e, totalAttempts |-> l.totalAttempts,
                         via |-> "throw"]]

\* Head of the inner loop: the cancellation check, then the operation is invoked.
InnerLoopBodyUnchecked(l, aborted) ==
  [l EXCEPT !.totalAttempts = @ + 1, !.pc = "operation",
            !.opArgs = Append(@, l.context)]
InnerLoopBody(l, aborted) ==
  IF aborted THEN Throw(l, AbortedError)
  ELSE [l EXCEPT !.totalAttempts = @ + 1, !.pc = "operation",
                 !.opArgs = Append(@, l.context)]

\* Head of the outer loop: pick the resolver of this position, fresh counters.
OuterLoopBodyKeepsCounter(l, aborted) ==
  LET cur == IF l.resolverIndex < Len(errorResolvers)
             THEN errorResolvers[l.resolverIndex + 1] ELSE NoResolver
  IN InnerLoopBody([l EXCEPT !.currentResolver = cur,
                             !.resolverIndex = @ + 1,
                             !.remainingAttempts = 1,
                             !.context = RetryContext(Undefined)], aborted)
OuterLoopBodySkips(l, aborted) ==
  LET cur == IF l.resolverIndex + 1 < Len(errorResolvers)
             THEN errorResolvers[l.resolverIndex + 2] ELSE NoResolver
  IN InnerLoopBody([l EXCEPT !.currentResolver = cur,
                             !.resolverIndex = IF l.resolverIndex = 0 THEN 1 ELSE @ + 2,
                             !.remainingAttempts = 1,
                             !.resolverRetries = 0,
                             !.context = RetryContext(Undefined)], aborted)
OuterLoopBodyKeepsContext(l, aborted) ==
  LET cur == IF l.resolverIndex < Len(errorResolvers)
             THEN errorResolvers[l.resolverIndex + 1] ELSE NoResolver
  IN InnerLoopBody([l EXCEPT !.currentResolver = cur,
                             !.resolverIndex = @ + 1,
                             !.remainingAttempts = 1,
                             !.resolverRetries = 0], aborted)
OuterLoopBody(l, aborted) ==
  LET cur == IF l.resolverIndex < Len(errorResolvers)
             THEN errorResolvers[l.resolverIndex + 1] ELSE NoResolver
  IN InnerLoopBody([l EXCEPT !.currentResolver = cur,
                             !.resolverIndex = @ + 1,
                             !.remainingAttempts = 1,
                             !.resolverRetries = 0,
                             !.context = RetryContext(Undefined)], aborted)

\* The test that ends the run when a resolver is exhausted.
NoResolverLeft(index, length) == index >= length - 1

\* After the resolver's promise resolved: variant that keeps the old context.
AfterResolutionKeepsContext(l, res, aborted) ==
  LET l1 == [l EXCEPT !.resolution = res,
                      !.resolutionLog = Append(@, Resolved(res))]
      l2 == [l1 EXCEPT !.remainingAttempts = res.remainingAttempts,
                       !.resolverRetries = @ + 1]
  IN IF res.unrecoverable
     THEN Return(l1, FALSE, None, l1.caught, "unrecoverable")
     ELSE IF l2.remainingAttempts <= 0
             /\ NoResolverLeft(l2.resolverIndex, Len(errorResolvers))
     THEN Return(l2, FALSE, None, l2.caught, "exhausted")
     ELSE IF l2.remainingAttempts > 0 THEN InnerLoopBody(l2, aborted)
     ELSE IF l2.resolverIndex < Len(errorResolvers) THEN OuterLoopBody(l2, aborted)
     ELSE Throw(l2, UnexpectedExitError)

\* After the resolver's promise resolved with resolution res.
AfterResolutionRetriesFirst(l, res, aborted) ==
  LET l1 == [l EXCEPT !.resolution = res, !.context = res.context,
                      !.resolutionLog = Append(@, Resolved(res))]
      l2 == [l1 EXCEPT !.remainingAttempts = res.remainingAttempts,
                       !.resolverRetries = @ + 1]
  IN IF l2.remainingAttempts > 0 THEN InnerLoopBody(l2, aborted)
     ELSE Return(l2, FALSE, None, l2.caught,
                 IF res.unrecoverable THEN "unrecoverable" ELSE "exhausted")
AfterResolution(l, res, aborted) ==
  LET l1 == [l EXCEPT !.resolution = res, !.context = res.context,
                      !.resolutionLog = Append(@, Resolved(res))]
      l2 == [l1 EXCEPT !.remainingAttempts = res.remainingAttempts,
                       !.resolverRetries = @ + 1]
  IN IF res.unrecoverable
     THEN Return(l1, FALSE, None, l1.caught, "unrecoverable")
     ELSE IF AtMostZero(l2.remainingAttempts)
             /\ NoResolverLeft(l2.resolverIndex, Len(errorResolvers))
     THEN Return(l2, FALSE, None, l2.caught, "exhausted")
     ELSE IF Positive(l2.remainingAttempts) THEN InnerLoopBody(l2, aborted)
     ELSE IF l2.resolverIndex < Len(errorResolvers) THEN OuterLoopBody(l2, aborted)
     ELSE Throw(l2, UnexpectedExitError)

\* Variant of the resolver call that is not awaited: the loop goes straight on.
InvokeResolverUnawaited(l, matches, aborted) ==
  InnerLoopBody([l EXCEPT !.resolverLog =
                   Append(@, [index |-> l.resolverIndex - 1,
                              attempt |-> l.resolverRetries,
                              total |-> l.totalAttempts, context |-> l.context])],
                aborted)

\* currentResolver({error, attempt, retryContext, abortSignal}) up to its first
\* suspension: the filter is evaluated (matches says what it answers), then the
\* delayed resolver sleeps and the custom resolver calls its callback.
InvokeResolver(l, matches, aborted) ==
  LET r == l.currentResolver
      l1 == [l EXCEPT !.resolverLog =
               Append(@, [index |-> l.resolverIndex - 1, attempt |-> l.resolverRetries,
                          total |-> l.totalAttempts, context |-> l.context])]
  IN IF r.filter # "none" /\ FilterMethod(r.kind) \notin ToErrorFilter(r.filter)
     THEN Throw([l1 EXCEPT !.resolutionLog = Append(@, ResolverThrew)], TypeError)
     ELSE IF r.filter # "none" /\ ~matches
     THEN AfterResolution(l1, Decline, aborted)
     ELSE [l1 EXCEPT !.pc = IF r.kind = "delay" THEN "sleeping" ELSE "callback"]

\* The catch block, entered with the error of the attempt just made.
OnOperationFailure(l, matches, aborted) ==
  LET l1 == [l EXCEPT !.caught = OperationError(l.totalAttempts),
                      !.opLog = Append(@, "fail")]
  IN IF aborted THEN Throw(l1, AbortedError)
     ELSE IF l1.currentResolver = NoResolver
             \/ (l1.remainingAttempts = 0 /\ l1.resolverIndex >= Len(errorResolvers))
     THEN Return(l1, FALSE, None, l1.caught, "noResolver")
     ELSE InvokeResolver(l1, matches, aborted)

\* The operation's promise resolved: the value of attempt n is written n.
OnOperationSuccessChecked(l) ==
  IF sig.mergedAborted THEN Throw([l EXCEPT !.opLog = Append(@, "ok")], AbortedError)
  ELSE Return([l EXCEPT !.opLog = Append(@, "ok")], TRUE, Some(l.totalAttempts),
              NoError, "success")
OnOperationSuccess(l) ==
  Return([l EXCEPT !.opLog = Append(@, "ok")], TRUE, Some(l.totalAttempts),
         NoError, "success")

\* ------------------------------------------------------ executeWithRetry
\* The promise executeWithRetryAll returns, before the call.
NotCalled == [state |-> "notCalled", results |-> << >>]

Pending ==
  [state |-> "pending", success |-> FALSE, result |-> None, error |-> NoError,
   totalAttemptsToSucceed |-> None, totalAttempts |-> None]

\* The value executeWithRetry returns.
RetryResult(success, result, error, toSucceed, total) ==
  [state |-> "returned", success |-> success, result |-> result, error |-> error,
   totalAttemptsToSucceed |-> toSucceed, totalAttempts |-> total]

\* executeWithRetry rejects with error.
Raised(error) ==
  [state |-> "thrown", success |-> FALSE, result |-> None, error |-> error,
   totalAttemptsToSucceed |-> None, totalAttempts |-> None]

\* totalAttempts of the result built in the catch block.
CatchTotalAttempts(total) == None

\* The try block after the awaited promise resolved with handleRetry's value v.
SettleResolvedRetriesToSucceed(v, throw) ==
  IF v.success = FALSE
  THEN IF throw THEN Raised(v.error)
       ELSE RetryResult(FALSE, None, v.error, None, Some(v.totalAttempts))
  ELSE RetryResult(TRUE, v.result, NoError, Some(v.totalAttempts - 1),
                   Some(v.totalAttempts))
SettleResolved(v, throw) ==
  IF v.success = FALSE
  THEN IF throw THEN Raised(v.error)
       ELSE RetryResult(FALSE, None, v.error, None, Some(v.totalAttempts))
  ELSE RetryResult(TRUE, v.result, NoError, Some(v.totalAttempts), Some(v.totalAttempts))

\* The catch block after the awaited promise rejected with error e; total is
\* the attempt count handleRetry had reached.
SettleRejectedAsAborted(e, total, throw) ==
  IF throw THEN Raised(AbortedError)
  ELSE RetryResult(FALSE, None, AbortedError, None, CatchTotalAttempts(total))
SettleRejectedNeverThrows(e, total, throw) ==
  RetryResult(FALSE, None, e, None, CatchTotalAttempts(total))
SettleRejected(e, total, throw) ==
  IF throw THEN Raised(e)
  ELSE RetryResult(FALSE, None, e, None, CatchTotalAttempts(total))

\* How executeWithRetry settles once handleRetry ended as h.
Settle(h, throw) ==
  IF h.state = "returned" THEN SettleResolved(h, throw)
  ELSE SettleRejected(h.error, h.totalAttempts, throw)

\* cleanup() calls on the way out: after the await (or in catch), in catch when
\* the try block threw result.error, and in finally.
CleanupCalls(h, throw) ==
  IF h.state = "returned" /\ h.success = FALSE /\ throw THEN 3 ELSE 2

\* The sleep of the delayed resolver ends at once when the signal it listens
\* on aborts: the resolver returns and handleRetry goes on.
Wake(l, before, after) ==
  IF l.pc = "sleeping" /\ ~before.mergedAborted /\ after.mergedAborted
     /\ "sleepListener" \in before.mergedListeners
  THEN AfterResolution(l, DelayResolution(l.currentResolver, l.resolverRetries), TRUE)
  ELSE l

\* sleep() registers its listener on the signal.
Listen(l, s) ==
  IF l.pc = "sleeping" THEN [s EXCEPT !.mergedListeners = @ \cup {"sleepListener"}]
  ELSE s

SetLocals(l) ==
  /\ pc' = l.pc
  /\ resolverIndex' = l.resolverIndex
  /\ totalAttempts' = l.totalAttempts
  /\ currentResolver' = l.currentResolver
  /\ remainingAttempts' = l.remainingAttempts
  /\ resolverRetries' = l.resolverRetries
  /\ context' = l.context
  /\ resolution' = l.resolution
  /\ caught' = l.caught
  /\ handled' = l.handled
  /\ opLog' = l.opLog
  /\ resolverLog' = l.resolverLog
  /\ opArgs' = l.opArgs
  /\ resolutionLog' = l.resolutionLog

\* A step of handleRetry that left the locals l and the signals s: when it
\* ended handleRetry and executeWithRetry still awaits, executeWithRetry settles.
Finish(l, s) ==
  /\ SetLocals(l)
  /\ IF l.pc = "done" /\ outcome.state = "pending"
     THEN /\ outcome' = Settle(l.handled, throwOnUnrecoveredError)
          /\ cleanups' = cleanups + CleanupCalls(l.handled, throwOnUnrecoveredError)
          /\ sig' = Cleanup(s)
     ELSE /\ outcome' = outcome
          /\ cleanups' = cleanups
          /\ sig' = s
  /\ UNCHANGED << inputs, batch, pure >>

\* The same, for the steps that are neither the call nor the timer; answer
\* is what the filter or the callback answered in the step, None when neither
\* was asked.
StepAnswered(l, s, answer) ==
  /\ Finish(l, s)
  /\ lastAnswer' = answer
  /\ UNCHANGED << calledAborted, timerFired >>
Step(l, s) == StepAnswered(l, s, None)

\* The answer of the filter of the resolver invoked in a step from the locals
\* before to the locals after: matches, when a resolver with a filter was
\* invoked.
FilterAnswer(before, after, matches) ==
  IF Len(after.resolverLog) > Len(before.resolverLog)
     /\ before.currentResolver.filter # "none"
  THEN Some([filter |-> matches])
  ELSE None

Init ==
  /\ errorResolvers \in Chains
  /\ throwOnUnrecoveredError \in BOOLEAN
  /\ overallTimeout \in OverallTimeouts
  /\ externalAbortSignal \in {Undefined, "signal"}
  /\ sig = FreshSignals
  /\ pc = "notStarted"
  /\ resolverIndex = 0
  /\ totalAttempts = 0
  /\ currentResolver = NoResolver
  /\ remainingAttempts = 1
  /\ resolverRetries = 0
  /\ context = RetryContext(Undefined)
  /\ resolution = Resolution(1, FALSE, Undefined)
  /\ caught = NoError
  /\ handled = Running
  /\ outcome = Pending
  /\ cleanups = 0
  /\ opLog = << >>
  /\ resolverLog = << >>
  /\ opArgs = << >>
  /\ resolutionLog = << >>
  /\ calledAborted = FALSE
  /\ timerFired = FALSE
  /\ lastAnswer = None
  /\ operations = << >>
  /\ runs = << >>
  /\ allResult = NotCalled
  /\ filterEval = NotEvaluated
  /\ delayEval = NotEvaluated

\* The caller calls executeWithRetry: signals merged, timer armed, handleRetry
\* runs up to the first invocation of the operation.
ExecuteWithRetry ==
  /\ pc = "notStarted"
  /\ LET s == ArmTimeout(AbortSignalAny(sig, externalAbortSignal), overallTimeout)
     IN Finish(OuterLoopBody(Locals, s.mergedAborted), s)
  /\ calledAborted' = (externalAbortSignal # Undefined /\ sig.externalAborted)
  /\ lastAnswer' = None
  /\ UNCHANGED timerFired

\* The operation in flight resolves.
OperationSucceeds ==
  /\ pc = "operation"
  /\ Step(OnOperationSuccess(Locals), sig)

\* The operation in flight throws or rejects; handleRetry runs on up to the
\* next suspension.
OperationFails ==
  /\ pc = "operation"
  /\ \E matches \in BOOLEAN :
       LET l == OnOperationFailure(Locals, matches, sig.mergedAborted)
       IN StepAnswered(l, Listen(l, sig), FilterAnswer(Locals, l, matches))

\* The delayed resolver's sleep timer elapses.
SleepElapses ==
  /\ pc = "sleeping"
  /\ Step(AfterResolution(Locals,
                            DelayResolution(currentResolver, resolverRetries),
                            sig.mergedAborted), sig)

\* The custom resolver's callback returns r.
CallbackReturns ==
  /\ pc = "callback"
  /\ \E r \in CallbackResults(totalAttempts) :
       StepAnswered(AfterResolution(Locals, CustomResolution(r), sig.mergedAborted),
                    sig, Some([callback |-> r]))

\* The custom resolver's callback throws.
CallbackThrows ==
  /\ pc = "callback"
  /\ Step(Throw([Locals EXCEPT !.resolutionLog = Append(@, ResolverThrew)],
                CallbackError), sig)

\* The overall-timeout timer fires: timeoutController.abort(), then
\* reject(new Error('Operation timed out')).
TimeoutFires ==
  /\ sig.timerArmed
  /\ LET s == AbortTimeout([sig EXCEPT !.timerArmed = FALSE])
     IN /\ SetLocals(Wake(Locals, sig, s))
        /\ IF outcome.state = "pending"
           THEN /\ outcome' = SettleRejected(TimedOutError, totalAttempts,
                                             throwOnUnrecoveredError)
                /\ cleanups' = cleanups + 2
                /\ sig' = Cleanup(s)
           ELSE /\ outcome' = outcome
                /\ cleanups' = cleanups
                /\ sig' = s
  /\ timerFired' = TRUE
  /\ lastAnswer' = None
  /\ UNCHANGED << inputs, calledAborted, batch, pure >>

\* The caller aborts the external signal.
ExternalAbort ==
  /\ externalAbortSignal # Undefined
  /\ ~sig.externalAborted
  /\ pc # "done"
  /\ LET s == AbortExternal(sig)
     IN Step(Wake(Locals, sig, s), s)

Next ==
  \/ ExecuteWithRetry
  \/ OperationSucceeds
  \/ OperationFails
  \/ SleepElapses
  \/ CallbackReturns
  \/ CallbackThrows
  \/ TimeoutFires
  \/ ExternalAbort

Spec == Init /\ [][Next]_vars

\* The custom resolver's callback returns NaN as remainingAttempts.
CallbackReturnsNaN ==
  /\ pc = "callback"
  /\ \E r \in [remainingAttempts : {NotANumber}, unrecoverable : BOOLEAN,
                context : {Undefined}] :
       StepAnswered(AfterResolution(Locals, CustomResolution(r), sig.mergedAborted),
                    sig, Some([callback |-> r]))

\* The runs where a callback may return any number.
NextAnyNumber == Next \/ CallbackReturnsNaN

SpecAnyNumber == Init /\ [][NextAnyNumber]_vars

\* The same run where what the event loop and the resolvers owe happens: a
\* pending timer (the overall timeout, a resolver's sleep) fires and a
\* resolver's callback settles. Nothing is assumed of the operation, which
\* may never settle.
SpecLive ==
  /\ Init /\ [][Next]_vars
  /\ WF_vars(TimeoutFires)
  /\ WF_vars(SleepElapses)
  /\ WF_vars(CallbackReturns \/ CallbackThrows)

\* The runs under a chain of delayed resolvers only, where every operation
\* attempt settles and every pending timer fires.
InitDelayed ==
  /\ Init
  /\ \A i \in DOMAIN errorResolvers : errorResolvers[i].kind = "delay"

NextDelayed ==
  \/ ExecuteWithRetry
  \/ OperationSucceeds
  \/ OperationFails
  \/ SleepElapses
  \/ TimeoutFires
  \/ ExternalAbort

SpecDelayed ==
  /\ InitDelayed /\ [][NextDelayed]_vars
  /\ WF_vars(OperationSucceeds \/ OperationFails)
  /\ WF_vars(SleepElapses)
  /\ WF_vars(TimeoutFires)

\* --------------------------------------------------- executeWithRetryAll
\* An operation is given by the number of times it fails before it succeeds;
\* one that fails MaxRetries + 1 times outlasts every resolver drawn.
Scripts == 0..(MaxRetries + 1)

\* The shared chains drawn: none, or one unfiltered delayed resolver.
AllChains ==
  {c \in Chains : Len(c) <= 1 /\ \A i \in DOMAIN c :
                                    c[i].kind = "delay" /\ c[i].filter = "none"}

\* throwOnUnrecoveredError as executeWithRetryAll passes it.
AllThrowsOnUnrecoveredError == TRUE
AllThrowOnUnrecoveredError == FALSE

\* The locals of a handleRetry call and the state of an executeWithRetry call
\* before they start.
InitialLocals ==
  [pc |-> "notStarted", resolverIndex |-> 0, totalAttempts |-> 0,
   currentResolver |-> NoResolver, remainingAttempts |-> 1,
   resolverRetries |-> 0, context |-> RetryContext(Undefined),
   resolution |-> Resolution(1, FALSE, Undefined), caught |-> NoError,
   handled |-> Running, opLog |-> << >>, resolverLog |-> << >>,
   opArgs |-> << >>, resolutionLog |-> << >>]
FreshRun ==
  [l |-> InitialLocals, s |-> FreshSignals, outcome |-> Pending,
   timerFired |-> FALSE]

\* One executeWithRetry call among several: a step of its handleRetry that
\* left the locals l and the signals s; executeWithRetry settles when
\* handleRetry ended and it still awaits.
RunFinish(run, l, s) ==
  IF l.pc = "done" /\ run.outcome.state = "pending"
  THEN [run EXCEPT !.l = l, !.s = Cleanup(s),
                   !.outcome = Settle(l.handled, AllThrowOnUnrecoveredError)]
  ELSE [run EXCEPT !.l = l, !.s = s]

\* executeWithRetry is called: up to the first invocation of the operation.
RunCalled(run) ==
  LET s == ArmTimeout(AbortSignalAny(run.s, externalAbortSignal), overallTimeout)
  IN RunFinish(run, OuterLoopBody(run.l, s.mergedAborted), s)

\* The operation in flight settles: attempt n fails when n <= fails.
RunOperationSettles(run, fails) ==
  LET l == IF run.l.totalAttempts <= fails
           THEN OnOperationFailure(run.l, TRUE, run.s.mergedAborted)
           ELSE OnOperationSuccess(run.l)
  IN RunFinish(run, l, Listen(l, run.s))

\* The delayed resolver's sleep timer elapses: variant where the attempt
\* counter is one for all the runs that share the resolver.
RunSleepElapsesSharedCounter(run) ==
  LET shared == CHOOSE m \in {runs[i].l.resolverRetries : i \in DOMAIN runs} :
                  \A i \in DOMAIN runs : runs[i].l.resolverRetries <= m
  IN RunFinish(run,
               AfterResolution(run.l,
                               DelayResolution(run.l.currentResolver, shared),
                               run.s.mergedAborted),
               run.s)
RunSleepElapses(run) ==
  RunFinish(run,
            AfterResolution(run.l,
                            DelayResolution(run.l.currentResolver,
                                            run.l.resolverRetries),
                            run.s.mergedAborted),
            run.s)

\* The overall-timeout timer of the call fires.
RunTimeoutFires(run) ==
  LET s == AbortTimeout([run.s EXCEPT !.timerArmed = FALSE])
      l == Wake(run.l, run.s, s)
  IN IF run.outcome.state = "pending"
     THEN [run EXCEPT !.l = l, !.s = Cleanup(s), !.timerFired = TRUE,
                      !.outcome = SettleRejected(TimedOutError, run.l.totalAttempts,
                                                 AllThrowOnUnrecoveredError)]
     ELSE [run EXCEPT !.l = l, !.s = s, !.timerFired = TRUE]

\* The caller's signal aborts: the call's listener on it runs.
RunExternalAbort(run) ==
  LET s == AbortExternal(run.s)
  IN RunFinish(run, Wake(run.l, run.s, s), s)

\* Promise.all over the calls' promises rs: rejects with the first rejection,
\* fulfils with the values in the order of the calls once all have fulfilled.
PromiseAll(prev, rs) ==
  IF prev.state \in {"fulfilled", "rejected"} THEN prev
  ELSE IF \E i \in DOMAIN rs : rs[i].outcome.state = "thrown"
  THEN [state |-> "rejected", results |-> << >>]
  ELSE IF \A i \in DOMAIN rs : rs[i].outcome.state = "returned"
  THEN [state |-> "fulfilled", results |-> [i \in DOMAIN rs |-> rs[i].outcome]]
  ELSE [state |-> "pending", results |-> << >>]

\* A step that left the calls as rs.
AllStep(rs) ==
  /\ runs' = rs
  /\ allResult' = PromiseAll(allResult, rs)
  /\ UNCHANGED << inputs, operations, sig, pc, resolverIndex, totalAttempts,
                  currentResolver, remainingAttempts, resolverRetries, context,
                  resolution, caught, handled, outcome, cleanups, opLog,
                  resolverLog, opArgs, resolutionLog, calledAborted, timerFired,
                  lastAnswer, pure >>

InitAll ==
  /\ errorResolvers \in AllChains
  /\ throwOnUnrecoveredError = AllThrowOnUnrecoveredError
  /\ overallTimeout \in OverallTimeouts
  /\ externalAbortSignal \in {Undefined, "signal"}
  /\ sig = FreshSignals
  /\ pc = "notStarted"
  /\ resolverIndex = 0
  /\ totalAttempts = 0
  /\ currentResolver = NoResolver
  /\ remainingAttempts = 1
  /\ resolverRetries = 0
  /\ context = RetryContext(Undefined)
  /\ resolution = Resolution(1, FALSE, Undefined)
  /\ caught = NoError
  /\ handled = Running
  /\ outcome = Pending
  /\ cleanups = 0
  /\ opLog = << >>
  /\ resolverLog = << >>
  /\ opArgs = << >>
  /\ resolutionLog = << >>
  /\ calledAborted = FALSE
  /\ timerFired = FALSE
  /\ lastAnswer = None
  /\ operations \in UNION {[1..n -> Scripts] : n \in 1..NumOperations}
  /\ runs = [i \in DOMAIN operations |-> FreshRun]
  /\ allResult = NotCalled
  /\ filterEval = NotEvaluated
  /\ delayEval = NotEvaluated

\* The caller calls executeWithRetryAll: operations.map calls executeWithRetry
\* on each operation in turn, then Promise.all takes the promises.
ExecuteWithRetryAll ==
  /\ allResult.state = "notCalled"
  /\ allResult' = PromiseAll([state |-> "pending", results |-> << >>],
                             [i \in DOMAIN runs |-> RunCalled(runs[i])])
  /\ runs' = [i \in DOMAIN runs |-> RunCalled(runs[i])]
  /\ UNCHANGED << inputs, operations, sig, pc, resolverIndex, totalAttempts,
                  currentResolver, remainingAttempts, resolverRetries, context,
                  resolution, caught, handled, outcome, cleanups, opLog,
                  resolverLog, opArgs, resolutionLog, calledAborted, timerFired,
                  lastAnswer, pure >>

\* The operation in flight of call i settles.
AllOperationSettles ==
  \E i \in DOMAIN runs :
    /\ runs[i].l.pc = "operation"
    /\ AllStep([runs EXCEPT ![i] = RunOperationSettles(runs[i], operations[i])])

\* The sleep of the delayed resolver invoked by call i elapses.
AllSleepElapses ==
  \E i \in DOMAIN runs :
    /\ runs[i].l.pc = "sleeping"
    /\ AllStep([runs EXCEPT ![i] = RunSleepElapses(runs[i])])

\* The overall-timeout timer of call i fires; the timers have the same delay
\* and fire in the order they were set.
AllTimeoutFires ==
  \E i \in DOMAIN runs :
    /\ runs[i].s.timerArmed
    /\ \A j \in 1..(i - 1) : ~runs[j].s.timerArmed
    /\ AllStep([runs EXCEPT ![i] = RunTimeoutFires(runs[i])])

\* The caller aborts the signal the calls share.
AllExternalAbort ==
  /\ externalAbortSignal # Undefined
  /\ \A i \in DOMAIN runs : ~runs[i].s.externalAborted
  /\ \E i \in DOMAIN runs : runs[i].l.pc # "done"
  /\ AllStep([i \in DOMAIN runs |-> RunExternalAbort(runs[i])])

NextAll ==
  \/ ExecuteWithRetryAll
  \/ AllOperationSettles
  \/ AllSleepElapses
  \/ AllTimeoutFires
  \/ AllExternalAbort

SpecAll == InitAll /\ [][NextAll]_vars

\* ------------------------------------------------------ filter combinators
\* The arguments (error, attempt, context) a filter is called with.
FilterArgs ==
  [error : {OperationError(1)}, attempt : {0, 1},
   context : {RetryContext(Undefined)}]

\* A member of a combinator's list: a bare predicate or an object with a
\* canHandle method, given by what it answers to each argument triple.
Members == [shape : {"function", "canHandle"}, answers : [FilterArgs -> BOOLEAN]]
FilterLists == UNION {[1..n -> Members] : n \in 0..MaxFilters}

\* The callback of every/some on member i: the member is called directly when
\* it is a function, through its canHandle method otherwise.
MemberCall(filter, i, args) ==
  [index |-> i, via |-> IF filter.shape = "function" THEN "call" ELSE "canHandle",
   args |-> args]
MemberAnswer(filter, args) == filter.answers[args]

\* filters.every(callback) from member i on; calls logs the members called.
RECURSIVE ArrayEveryEvaluatesAll(_, _, _, _)
ArrayEveryEvaluatesAll(filters, i, args, calls) ==
  IF i > Len(filters) THEN [result |-> TRUE, calls |-> calls]
  ELSE LET rest == ArrayEveryEvaluatesAll(filters, i + 1, args,
                                          Append(calls, MemberCall(filters[i], i, args)))
       IN [result |-> MemberAnswer(filters[i], args) /\ rest.result,
           calls |-> rest.calls]
RECURSIVE ArrayEvery(_, _, _, _)
ArrayEvery(filters, i, args, calls) ==
  IF i > Len(filters) THEN [result |-> TRUE, calls |-> calls]
  ELSE LET c == Append(calls, MemberCall(filters[i], i, args))
       IN IF MemberAnswer(filters[i], args)
          THEN ArrayEvery(filters, i + 1, args, c)
          ELSE [result |-> FALSE, calls |-> c]

\* filters.some(callback) from member i on.
RECURSIVE ArraySomeEvaluatesAll(_, _, _, _)
ArraySomeEvaluatesAll(filters, i, args, calls) ==
  IF i > Len(filters) THEN [result |-> FALSE, calls |-> calls]
  ELSE LET rest == ArraySomeEvaluatesAll(filters, i + 1, args,
                                         Append(calls, MemberCall(filters[i], i, args)))
       IN [result |-> MemberAnswer(filters[i], args) \/ rest.result,
           calls |-> rest.calls]
RECURSIVE ArraySome(_, _, _, _)
ArraySome(filters, i, args, calls) ==
  IF i > Len(filters) THEN [result |-> FALSE, calls |-> calls]
  ELSE LET c == Append(calls, MemberCall(filters[i], i, args))
       IN IF MemberAnswer(filters[i], args)
          THEN [result |-> TRUE, calls |-> c]
          ELSE ArraySome(filters, i + 1, args, c)

\* allFilters(filters).canHandle(error, attempt, context)
AllFilters(filters, args) == ArrayEvery(filters, 1, args, << >>)

\* anyFilters(filters).canHandle(error, attempt, context)
AnyFilters(filters, args) == ArraySome(filters, 1, args, << >>)

\* noneFilters(filters): true iff no member returns true, stopping at the
\* first member that does.
NoneFilters(filters, args) ==
  LET any == ArraySome(filters, 1, args, << >>)
  IN [result |-> ~any.result, calls |-> any.calls]

Evaluated(combinator, r) ==
  /\ filterEval.state = "built"
  /\ filterEval' = [filterEval EXCEPT !.state = "evaluated",
                                      !.combinator = combinator,
                                      !.result = r.result, !.calls = r.calls]
  /\ UNCHANGED << inputs, batch, delayEval, sig, pc, resolverIndex, totalAttempts,
                  currentResolver, remainingAttempts, resolverRetries, context,
                  resolution, caught, handled, outcome, cleanups, opLog,
                  resolverLog, opArgs, resolutionLog, calledAborted, timerFired,
                  lastAnswer >>

InitFilters ==
  /\ errorResolvers = << >>
  /\ throwOnUnrecoveredError = FALSE
  /\ overallTimeout = 0
  /\ externalAbortSignal = Undefined
  /\ sig = FreshSignals
  /\ pc = "notStarted"
  /\ resolverIndex = 0
  /\ totalAttempts = 0
  /\ currentResolver = NoResolver
  /\ remainingAttempts = 1
  /\ resolverRetries = 0
  /\ context = RetryContext(Undefined)
  /\ resolution = Resolution(1, FALSE, Undefined)
  /\ caught = NoError
  /\ handled = Running
  /\ outcome = Pending
  /\ cleanups = 0
  /\ opLog = << >>
  /\ resolverLog = << >>
  /\ opArgs = << >>
  /\ resolutionLog = << >>
  /\ calledAborted = FALSE
  /\ timerFired = FALSE
  /\ lastAnswer = None
  /\ operations = << >>
  /\ runs = << >>
  /\ allResult = NotCalled
  /\ delayEval = NotEvaluated
  /\ \E fs \in FilterLists, a \in FilterArgs :
       filterEval = [state |-> "built", filters |-> fs, args |-> a,
                     combinator |-> "none", result |-> FALSE, calls |-> << >>]

CallAllFilters ==
  Evaluated("allFilters", AllFilters(filterEval.filters, filterEval.args))
CallAnyFilters ==
  Evaluated("anyFilters", AnyFilters(filterEval.filters, filterEval.args))
CallNoneFilters ==
  Evaluated("noneFilters", NoneFilters(filterEval.filters, filterEval.args))

NextFilters == CallAllFilters \/ CallAnyFilters \/ CallNoneFilters

SpecFilters == InitFilters /\ [][NextFilters]_vars

\* ------------------------------------------- delayed resolver's delay
\* The numbers drawn for initialDelayMs, maxDelayMs, backoffMultiplier and
\* for what customDelay returns; None stands for a field left out.
DelayNumbers == (-1)..MaxDelayMs
DelayFields == {None} \cup {Some(n) : n \in DelayNumbers}
DelayPolicies ==
  [initialDelayMs : DelayFields, maxDelayMs : DelayFields,
   backoffMultiplier : DelayFields, customDelay : DelayFields]

\* x ?? d
OrDefault(x, d) == IF x = None THEN d ELSE x[1]

\* The number x taken as a condition (x ? ... : ...): undefined and 0 are false.
Truthy(x) == x # None /\ x[1] # 0

MathMin(a, b) == IF a <= b THEN a ELSE b

\* The delay computed without customDelay.
BackoffDelay(configuration, attempt) ==
  LET linear == OrDefault(configuration.initialDelayMs, 0) * (attempt + 1)
                  * OrDefault(configuration.backoffMultiplier, 1)
  IN IF Truthy(configuration.maxDelayMs)
     THEN MathMin(linear, configuration.maxDelayMs[1])
     ELSE linear

\* const delay = ...: customDelay's value when there is one.
ResolverDelayCapsCustom(configuration, attempt) ==
  IF configuration.customDelay # None
  THEN IF Truthy(configuration.maxDelayMs)
       THEN MathMin(configuration.customDelay[1], configuration.maxDelayMs[1])
       ELSE configuration.customDelay[1]
  ELSE BackoffDelay(configuration, attempt)
ResolverDelay(configuration, attempt) ==
  IF configuration.customDelay # None
  THEN configuration.customDelay[1]
  ELSE BackoffDelay(configuration, attempt)

\* sleep(ms): the duration given to setTimeout.
SleepMs(ms) == IF ms < 0 THEN 0 ELSE ms

DelayStep(next) ==
  /\ delayEval' = next
  /\ UNCHANGED << inputs, batch, filterEval, sig, pc, resolverIndex, totalAttempts,
                  currentResolver, remainingAttempts, resolverRetries, context,
                  resolution, caught, handled, outcome, cleanups, opLog,
                  resolverLog, opArgs, resolutionLog, calledAborted, timerFired,
                  lastAnswer >>

InitDelay ==
  /\ errorResolvers = << >>
  /\ throwOnUnrecoveredError = FALSE
  /\ overallTimeout = 0
  /\ externalAbortSignal = Undefined
  /\ sig = FreshSignals
  /\ pc = "notStarted"
  /\ resolverIndex = 0
  /\ totalAttempts = 0
  /\ currentResolver = NoResolver
  /\ remainingAttempts = 1
  /\ resolverRetries = 0
  /\ context = RetryContext(Undefined)
  /\ resolution = Resolution(1, FALSE, Undefined)
  /\ caught = NoError
  /\ handled = Running
  /\ outcome = Pending
  /\ cleanups = 0
  /\ opLog = << >>
  /\ resolverLog = << >>
  /\ opArgs = << >>
  /\ resolutionLog = << >>
  /\ calledAborted = FALSE
  /\ timerFired = FALSE
  /\ lastAnswer = None
  /\ operations = << >>
  /\ runs = << >>
  /\ allResult = NotCalled
  /\ filterEval = NotEvaluated
  /\ \E cfg \in DelayPolicies, a \in 0..MaxRetries :
       delayEval = [state |-> "invoked", configuration |-> cfg, attempt |-> a,
                    customDelayCalls |-> << >>, delay |-> 0, slept |-> None]

\* The resolver computes the delay by calling customDelay.
CallCustomDelay ==
  /\ delayEval.state = "invoked"
  /\ delayEval.configuration.customDelay # None
  /\ DelayStep([delayEval EXCEPT
       !.state = "computed",
       !.customDelayCalls =
          Append(@, [attempt |-> delayEval.attempt,
                     configuration |-> delayEval.configuration]),
       !.delay = ResolverDelay(delayEval.configuration, delayEval.attempt)])

\* The resolver computes the delay from the configuration's numbers.
ComputeDelay ==
  /\ delayEval.state = "invoked"
  /\ delayEval.configuration.customDelay = None
  /\ DelayStep([delayEval EXCEPT
       !.state = "computed",
       !.delay = ResolverDelay(delayEval.configuration, delayEval.attempt)])

\* await sleep(delay, abortSignal): the timer is set.
Sleep ==
  /\ delayEval.state = "computed"
  /\ DelayStep([delayEval EXCEPT !.state = "sleeping",
                                 !.slept = Some(SleepMs(delayEval.delay))])

NextDelay == CallCustomDelay \/ ComputeDelay \/ Sleep

SpecDelay == InitDelay /\ [][NextDelay]_vars

\* ----------------------------------------------------------- properties
Settled == outcome.state # "pending"
Failed ==
  outcome.state = "thrown" \/ (outcome.state = "returned" /\ ~outcome.success)
Succeeded == outcome.state = "returned" /\ outcome.success

\* Number of times the operation has been invoked: the settled invocations
\* and the one in flight.
OperationInvocations == Len(opLog) + IF pc = "operation" THEN 1 ELSE 0

AlwaysFailed == \A i \in 1..Len(opLog) : opLog[i] = "fail"

\* No cancellation source has fired in the run.
NoCancellation == ~timerFired /\ ~sig.externalAborted

\* C1: a resolver that is not the last of the chain and returns
\* remainingAttempts <= 0 with unrecoverable = false, no cancellation having
\* fired, does not end the run: handleRetry returns the exhaustion failure
\* only at the last position of the chain.
C1_ExhaustedResolverAdvances ==
  (pc = "done" /\ handled.via = "exhausted" /\ NoCancellation)
    => resolverIndex >= Len(errorResolvers)

\* C2: an operation that always fails, under a chain of one unfiltered delayed
\* resolver with maxRetries = N and neither timeout nor abort, is invoked
\* exactly N+1 times; the run fails with totalAttempts = N+1 and the error of
\* the last attempt.
SingleDelayChain ==
  /\ Len(errorResolvers) = 1
  /\ errorResolvers[1].kind = "delay"
  /\ errorResolvers[1].filter = "none"
C2_SingleDelayedResolverAttempts ==
  (SingleDelayChain /\ overallTimeout = 0 /\ ~sig.externalAborted /\ AlwaysFailed)
    => LET N == errorResolvers[1].maxRetries
       IN /\ OperationInvocations <= N + 1
          /\ pc = "done" =>
               /\ Len(opLog) = N + 1
               /\ Failed
               /\ outcome.error = OperationError(N + 1)
               /\ outcome.state = "returned" => outcome.totalAttempts = Some(N + 1)
C2_Witness ==
  /\ SingleDelayChain /\ overallTimeout = 0 /\ externalAbortSignal = Undefined
  /\ errorResolvers[1].maxRetries = MaxRetries
  /\ pc = "done" /\ AlwaysFailed
  /\ outcome.state = "returned" /\ outcome.totalAttempts = Some(MaxRetries + 1)

\* C3 as stated: an operation that succeeds on its first invocation is invoked
\* once, no resolver is invoked, and the result is a success with
\* totalAttempts = totalAttemptsToSucceed = 1.
FirstAttemptSucceeded == Len(opLog) >= 1 /\ opLog[1] = "ok"
SuccessAtFirstAttempt ==
  /\ opLog = << "ok" >>
  /\ resolverLog = << >>
  /\ Succeeded
  /\ outcome.totalAttempts = Some(1)
  /\ outcome.totalAttemptsToSucceed = Some(1)
C3_FirstSuccessAsStated == FirstAttemptSucceeded => SuccessAtFirstAttempt

\* C3 amended: the same, when the overall timeout did not elapse while that
\* attempt was in flight; the operation is invoked once and no resolver is
\* invoked in either case.
C3_FirstSuccess ==
  FirstAttemptSucceeded =>
    /\ opLog = << "ok" >> /\ pc = "done" /\ resolverLog = << >>
    /\ ~timerFired => SuccessAtFirstAttempt
C3_Witness ==
  /\ FirstAttemptSucceeded /\ Succeeded /\ sig.externalAborted
  /\ overallTimeout # 0 /\ Len(errorResolvers) = MaxChain

\* The run stopped at the resolver invocation logged last: the operation was
\* not invoked after it and handleRetry has ended.
StoppedAtLastResolverCall ==
  /\ pc = "done"
  /\ resolverLog # << >>
  /\ LET last == resolverLog[Len(resolverLog)]
     IN /\ last.total = OperationInvocations
        /\ last.index = resolverIndex - 1
        /\ last.attempt = resolverRetries
        /\ caught = OperationError(last.total)

\* C4 as stated: once a resolver has returned unrecoverable = true the run
\* has failed with the error of the attempt that triggered the resolver, and
\* neither the operation nor a resolver is invoked after that invocation.
C4_UnrecoverableAsStated ==
  resolution.unrecoverable =>
    /\ StoppedAtLastResolverCall
    /\ Failed /\ outcome.error = caught

\* C4 amended: the same, except that a run whose overall timeout elapsed
\* while the resolver was in flight has already failed with
\* 'Operation timed out'.
C4_Unrecoverable ==
  resolution.unrecoverable =>
    /\ StoppedAtLastResolverCall
    /\ Failed
    /\ outcome.error = IF timerFired THEN TimedOutError ELSE caught
    /\ handled.state = "returned" /\ ~handled.success /\ handled.error = caught
C4_Witness ==
  /\ resolution.unrecoverable /\ resolution.remainingAttempts > 0
  /\ ~timerFired /\ Len(errorResolvers) >= 2 /\ resolverIndex = 1
  /\ outcome.state = "returned" /\ outcome.error = caught

\* C5: when the external signal is already aborted at the call, the operation
\* and the resolvers are never invoked, and the run fails with result and
\* totalAttemptsToSucceed undefined.
C5_AbortedBeforeCall ==
  calledAborted =>
    /\ OperationInvocations = 0
    /\ resolverLog = << >>
    /\ Failed
    /\ outcome.result = None
    /\ outcome.totalAttemptsToSucceed = None
C5_Witness ==
  calledAborted /\ outcome.state = "returned" /\ Len(errorResolvers) > 0

\* C6: once the run's cancellation signal is aborted, no operation attempt is
\* started and no resolver is invoked, also in the part of the loop that
\* runs on after executeWithRetry settled with the timeout error.
C6_NoWorkAfterCancellation ==
  [][sig.mergedAborted =>
       /\ OperationInvocations' = OperationInvocations
       /\ resolverLog' = resolverLog]_vars
C6_Witness ==
  /\ sig.mergedAborted /\ timerFired /\ Settled
  /\ pc = "done" /\ handled.state = "threw" /\ handled.error = AbortedError
  /\ resolution.remainingAttempts > 0 /\ resolverLog # << >>

\* C7: a run whose overall timeout elapsed fails with 'Operation timed out';
\* a failed run whose external signal fired, and whose timeout did not, fails
\* with 'Operation aborted'.
C7_FailureKindNamesSource ==
  Settled =>
    /\ timerFired => (Failed /\ outcome.error = TimedOutError)
    /\ (sig.externalAborted /\ ~timerFired /\ Failed) => outcome.error = AbortedError

\* C8: every failure result returned carries totalAttempts, equal to the
\* number of operation invocations made.
C8_FailureCarriesTotalAttempts ==
  (outcome.state = "returned" /\ ~outcome.success)
    => outcome.totalAttempts = Some(OperationInvocations)

\* C9: a result's totalAttempts, when defined, is the number of operation
\* invocations of the run; totalAttemptsToSucceed is defined exactly in a
\* success, and then equals totalAttempts, which is at least 1.
C9_TotalAttemptsExact ==
  outcome.state = "returned" =>
    /\ outcome.totalAttempts # None
         => outcome.totalAttempts = Some(OperationInvocations)
    /\ outcome.totalAttemptsToSucceed # None <=> outcome.success
    /\ outcome.success =>
         /\ outcome.totalAttemptsToSucceed = outcome.totalAttempts
         /\ outcome.totalAttempts # None
         /\ outcome.totalAttempts[1] >= 1
C9_Witness ==
  /\ Succeeded /\ outcome.totalAttemptsToSucceed = Some(MaxAttempts)
  /\ Len(resolverLog) = MaxAttempts - 1

\* The error a failed run reports: the timeout error when the timer fired,
\* otherwise the error handleRetry returned or threw.
FailureError == IF timerFired THEN TimedOutError ELSE handled.error
RunFailed == timerFired \/ handled.state = "threw" \/ ~handled.success

\* C10: with throwOnUnrecoveredError = false the call never rejects and a
\* failure is returned with its error attached; with true every failure is
\* raised, as the error that would have been attached, and a success is
\* still returned.
C10_ThrowOnUnrecoveredError ==
  Settled =>
    IF RunFailed
    THEN /\ outcome.error = FailureError
         /\ outcome.error # NoError
         /\ outcome.state = IF throwOnUnrecoveredError THEN "thrown" ELSE "returned"
         /\ ~outcome.success
    ELSE Succeeded
C10_Witness ==
  /\ throwOnUnrecoveredError /\ outcome.state = "thrown"
  /\ handled.state = "threw" /\ outcome.error = CallbackError

\* C11: operation and resolver invocations of a run never overlap: at most
\* one of them is in flight, and while an attempt is in flight every earlier
\* attempt has settled and the resolver invoked for it has returned.
OperationsInFlight == Len(opArgs) - Len(opLog)
ResolversInFlight == Len(resolverLog) - Len(resolutionLog)
C11_Sequential ==
  /\ OperationsInFlight \in {0, 1}
  /\ ResolversInFlight \in {0, 1}
  /\ OperationsInFlight + ResolversInFlight <= 1
  /\ OperationsInFlight = 1 =>
       /\ Len(resolverLog) = Len(opLog)
       /\ \A i \in 1..Len(opLog) : opLog[i] = "fail" /\ resolverLog[i].total = i
C11_Witness ==
  /\ pc = "operation" /\ Len(opLog) >= 2
  /\ sig.externalAborted /\ overallTimeout # 0

\* C12: the promise of executeWithRetryAll never rejects; it is fulfilled
\* exactly when every call has settled, with one result per operation, result
\* i being that of the call made for operations[i], however many calls failed
\* and in whatever order they finished.
AllSettled == \A i \in DOMAIN runs : runs[i].outcome.state # "pending"
C12_AllSettledInOrder ==
  /\ allResult.state # "rejected"
  /\ allResult.state = "fulfilled" <=> AllSettled
  /\ allResult.state = "fulfilled" =>
       /\ Len(allResult.results) = Len(operations)
       /\ \A i \in DOMAIN operations :
            /\ allResult.results[i] = runs[i].outcome
            /\ allResult.results[i].state = "returned"
            /\ allResult.results[i].success =>
                 allResult.results[i].result = Some(operations[i] + 1)
C12_Witness ==
  /\ allResult.state = "fulfilled" /\ Len(operations) = NumOperations
  /\ ~allResult.results[1].success /\ allResult.results[1].error = TimedOutError
  /\ allResult.results[NumOperations].success
  /\ allResult.results[NumOperations].result = Some(MaxRetries + 1)
  /\ runs[1].l.pc # "done"

\* executeWithRetry on an operation alone, with no cancellation, run to its end.
RECURSIVE SoloRun(_, _)
SoloRun(run, fails) ==
  IF run.l.pc = "notStarted" THEN SoloRun(RunCalled(run), fails)
  ELSE IF run.l.pc = "operation" THEN SoloRun(RunOperationSettles(run, fails), fails)
  ELSE IF run.l.pc = "sleeping" THEN SoloRun(RunSleepElapses(run), fails)
  ELSE run

\* The result of a run of an operation failing `fails` times under the shared
\* chain, as C2 and C20 give it.
ExpectedResult(fails) ==
  LET budget == IF errorResolvers = << >> THEN 0 ELSE errorResolvers[1].maxRetries
  IN IF fails <= budget
     THEN RetryResult(TRUE, Some(fails + 1), NoError, Some(fails + 1), Some(fails + 1))
     ELSE RetryResult(FALSE, None, OperationError(budget + 1), None, Some(budget + 1))

\* No cancellation source has fired in any call.
NoCancellationAll ==
  \A i \in DOMAIN runs : ~runs[i].timerFired /\ ~runs[i].s.externalAborted

\* C13: the calls of executeWithRetryAll share no counter or context: with
\* no cancellation fired, every settled call has the locals and the result
\* that executeWithRetry has for its operation run alone under the same chain.
C13_IndependentRuns ==
  NoCancellationAll =>
    \A i \in DOMAIN runs :
      runs[i].outcome.state # "pending" =>
        /\ runs[i].l = SoloRun(FreshRun, operations[i]).l
        /\ runs[i].outcome = SoloRun(FreshRun, operations[i]).outcome
        /\ runs[i].outcome = ExpectedResult(operations[i])
C13_Witness ==
  /\ NoCancellationAll /\ allResult.state = "fulfilled"
  /\ Len(operations) = NumOperations
  /\ operations[1] = MaxRetries + 1 /\ operations[NumOperations] = MaxRetries
  /\ errorResolvers # << >> /\ errorResolvers[1].maxRetries = MaxRetries
  /\ allResult.results[1].totalAttempts = Some(MaxRetries + 1)
  /\ ~allResult.results[1].success
  /\ allResult.results[NumOperations].totalAttemptsToSucceed = Some(MaxRetries + 1)

\* The listeners the engine registers: abortSignalAny's on its sources, and
\* timeoutAbortListener.
EngineListeners == {"abortListener", "timeoutAbortListener"}

\* C14: once executeWithRetry has settled, no listener registered by the
\* engine remains on the timeout signal, the external signal or the derived
\* signal.
C14_ListenersRemoved ==
  Settled =>
    /\ sig.externalListeners \cap EngineListeners = {}
    /\ sig.timeoutListeners \cap EngineListeners = {}
    /\ sig.mergedListeners \cap EngineListeners = {}

\* C15 as stated: on every exit path cleanup is performed exactly once.
C15_CleanupOnceAsStated == Settled => cleanups = 1

\* C15 amended: cleanup is never skipped: it has run two or three times when
\* executeWithRetry settles, not before, and its effect is that of one call:
\* the timer is not pending, timeoutAbortListener is removed and the timeout
\* controller is aborted.
C15_CleanupOnEveryExit ==
  /\ ~Settled => cleanups = 0
  /\ Settled =>
       /\ cleanups \in {2, 3}
       /\ ~sig.timerArmed
       /\ "timeoutAbortListener" \notin sig.mergedListeners
       /\ sig.timeoutAborted
       /\ Cleanup(sig) = sig
C15_Witness ==
  /\ Settled /\ cleanups = 3 /\ overallTimeout # 0 /\ ~timerFired
  /\ outcome.state = "thrown"

\* C16: the signal derived by abortSignalAny is aborted exactly when one of
\* its defined sources is, from the moment it is returned, and it sees one
\* abort event at most.
C16_DerivedSignal ==
  IF pc = "notStarted"
  THEN ~sig.mergedAborted /\ sig.abortEvents = 0
  ELSE /\ sig.mergedAborted <=>
            \/ sig.timeoutAborted
            \/ (externalAbortSignal # Undefined /\ sig.externalAborted)
       /\ sig.abortEvents = IF sig.mergedAborted THEN 1 ELSE 0
C16_Witness ==
  /\ calledAborted /\ sig.timeoutAborted /\ sig.externalAborted
  /\ sig.mergedAborted /\ sig.abortEvents = 1

\* The resolver invocation logged last ended by throwing.
ResolverThrown ==
  resolutionLog # << >> /\ resolutionLog[Len(resolutionLog)].threw

\* C17 as stated: when a resolver throws, the run fails carrying the
\* resolver's exception, returned or raised according to
\* throwOnUnrecoveredError, and neither the operation nor a resolver is
\* invoked after that.
C17_ResolverThrowsAsStated ==
  ResolverThrown =>
    /\ StoppedAtLastResolverCall
    /\ handled.error \in {TypeError, CallbackError}
    /\ Failed /\ outcome.error = handled.error
    /\ outcome.state = IF throwOnUnrecoveredError THEN "thrown" ELSE "returned"

\* C17 amended: the same, except that a run whose overall timeout elapsed
\* while the resolver was in flight has already failed with
\* 'Operation timed out'.
C17_ResolverThrows ==
  ResolverThrown =>
    /\ StoppedAtLastResolverCall
    /\ Len(resolverLog) = Len(resolutionLog)
    /\ handled.state = "threw" /\ handled.error \in {TypeError, CallbackError}
    /\ Failed
    /\ outcome.error = IF timerFired THEN TimedOutError ELSE handled.error
    /\ outcome.state = IF throwOnUnrecoveredError THEN "thrown" ELSE "returned"
C17_Witness ==
  /\ ResolverThrown /\ ~timerFired /\ sig.externalAborted
  /\ outcome.state = "returned" /\ outcome.error = CallbackError
  /\ Len(errorResolvers) >= 2 /\ Len(opLog) >= 2

\* C18: the first attempt receives {data: undefined}; a retry made under the
\* same resolver position receives the context returned by the resolver
\* invocation that preceded it.
C18_ContextHandOff ==
  /\ opArgs # << >> => opArgs[1] = RetryContext(Undefined)
  /\ \A k \in 2..Len(opArgs) :
       /\ Len(resolutionLog) >= k - 1
       /\ resolverLog[k - 1].total = k - 1
       /\ ~resolutionLog[k - 1].threw
       /\ resolutionLog[k - 1].retry => opArgs[k] = resolutionLog[k - 1].context
C18_Witness ==
  /\ Len(opArgs) >= 3
  /\ opArgs[2] = RetryContext("d1") /\ opArgs[3] = RetryContext(Undefined)
  /\ resolverLog[2].index = 0

\* C19 as stated: when cancellation (timeout or external abort) fired while
\* an attempt was in flight and the attempt then succeeded, the run succeeds
\* with that attempt's result.
SucceededAfterCancellation ==
  /\ pc = "done" /\ opLog # << >> /\ opLog[Len(opLog)] = "ok"
  /\ timerFired \/ sig.externalAborted
C19_CheckpointsAsStated ==
  SucceededAfterCancellation =>
    Succeeded /\ outcome.result = Some(Len(opLog))

\* C19 amended: that holds for the external abort signal; when the overall
\* timeout fired while the attempt was in flight, the run has failed with
\* 'Operation timed out'.
C19_Checkpoints ==
  SucceededAfterCancellation =>
    IF timerFired
    THEN Failed /\ outcome.error = TimedOutError
    ELSE /\ Succeeded
         /\ outcome.result = Some(Len(opLog))
         /\ outcome.totalAttempts = Some(Len(opLog))
C19_Witness ==
  /\ SucceededAfterCancellation /\ ~timerFired /\ Succeeded
  /\ Len(opLog) >= 2 /\ overallTimeout # 0

\* C20: an operation that fails k times and then succeeds, under a chain of
\* one unfiltered delayed resolver with maxRetries >= k and no cancellation:
\* the run does not give up within the first maxRetries failures, and ends in
\* a success with the value of attempt k+1 and
\* totalAttempts = totalAttemptsToSucceed = k+1.
C20_RetriesUntilSuccess ==
  (SingleDelayChain /\ overallTimeout = 0 /\ ~sig.externalAborted /\ pc = "done")
    => LET n == Len(opLog)
       IN IF opLog[n] = "ok"
          THEN /\ n - 1 <= errorResolvers[1].maxRetries
               /\ Succeeded
               /\ outcome.result = Some(n)
               /\ outcome.totalAttempts = Some(n)
               /\ outcome.totalAttemptsToSucceed = Some(n)
          ELSE n > errorResolvers[1].maxRetries
C20_Witness ==
  /\ SingleDelayChain /\ overallTimeout = 0 /\ externalAbortSignal = Undefined
  /\ pc = "done" /\ Succeeded
  /\ Len(opLog) = MaxRetries + 1 /\ outcome.totalAttemptsToSucceed = Some(MaxRetries + 1)

\* The calls made on the first n members of the list, each with the
\* combinator's own arguments.
CallsOfFirst(n) ==
  [j \in 1..n |-> MemberCall(filterEval.filters[j], j, filterEval.args)]
\* The members that answer b to the arguments.
Answering(b) ==
  {i \in DOMAIN filterEval.filters :
     filterEval.filters[i].answers[filterEval.args] = b}
FirstOf(S) == CHOOSE i \in S : \A j \in S : i <= j

LinearDelay ==
  OrDefault(delayEval.configuration.initialDelayMs, 0) * (delayEval.attempt + 1)
    * OrDefault(delayEval.configuration.backoffMultiplier, 1)
AtLeastZero(n) == IF n < 0 THEN 0 ELSE n

\* C23: without customDelay, the delay slept is
\* max(0, min(initialDelayMs*(attempt+1)*backoffMultiplier, maxDelayMs)) when
\* the configuration gives maxDelayMs, whatever its value, and so never
\* exceeds it; it is max(0, initialDelayMs*(attempt+1)*backoffMultiplier)
\* when maxDelayMs is left out.
C23_BackoffDelay ==
  (delayEval.state = "sleeping" /\ delayEval.configuration.customDelay = None)
    => delayEval.slept =
         Some(IF delayEval.configuration.maxDelayMs # None
              THEN AtLeastZero(MathMin(LinearDelay,
                                       delayEval.configuration.maxDelayMs[1]))
              ELSE AtLeastZero(LinearDelay))

\* C24: with customDelay, the delay slept is max(0, customDelay({attempt,
\* error, context, configuration})) whatever initialDelayMs, backoffMultiplier
\* and maxDelayMs are; customDelay is called once, with the attempt and the
\* configuration of the invocation.
C24_CustomDelay ==
  (delayEval.state = "sleeping" /\ delayEval.configuration.customDelay # None)
    => /\ delayEval.slept = Some(AtLeastZero(delayEval.configuration.customDelay[1]))
       /\ delayEval.customDelayCalls =
            << [attempt |-> delayEval.attempt,
                configuration |-> delayEval.configuration] >>
C24_Witness ==
  /\ delayEval.state = "sleeping"
  /\ delayEval.configuration.customDelay = Some(MaxDelayMs)
  /\ delayEval.configuration.maxDelayMs = Some(1)
  /\ delayEval.configuration.initialDelayMs = Some(1)
  /\ delayEval.slept = Some(MaxDelayMs)

\* C25: when cancellation fires while the delayed resolver sleeps, the sleep
\* ends in that step and the resolver returns without throwing, no operation
\* attempt follows, and handleRetry ends by throwing 'Operation aborted' so
\* that the run fails with the cancellation error, whatever the attempt
\* number.
C25_CancelledSleep ==
  [][(pc = "sleeping" /\ (timerFired' # timerFired
                            \/ sig'.externalAborted # sig.externalAborted)) =>
       /\ pc' = "done"
       /\ Len(resolutionLog') = Len(resolutionLog) + 1
       /\ ~resolutionLog'[Len(resolutionLog')].threw
       /\ OperationInvocations' = OperationInvocations
       /\ handled'.state = "threw" /\ handled'.error = AbortedError
       /\ outcome'.state # "pending" /\ ~outcome'.success
       /\ outcome'.error = IF timerFired' THEN TimedOutError ELSE AbortedError]_vars

\* The resolver invocations made so far at the position of invocation j.
EarlierAtPosition(j) ==
  {i \in 1..(j - 1) : resolverLog[i].index = resolverLog[j].index}

\* C26: the attempt numbers passed to the resolver of one position are 0, 1,
\* 2, ... in the order of its invocations, whatever earlier positions used.
C26_AttemptNumbers ==
  \A j \in 1..Len(resolverLog) :
    resolverLog[j].attempt = Cardinality(EarlierAtPosition(j))
C26_Witness ==
  /\ Len(resolverLog) >= 3
  /\ resolverLog[1].index = 0 /\ resolverLog[1].attempt = 0
  /\ resolverLog[2].index = 0 /\ resolverLog[2].attempt = 1
  /\ resolverLog[3].index = 1 /\ resolverLog[3].attempt = 0

\* C27: the positions invoked follow the chain's order: the first invocation
\* is of position 0; the next is of the same position when the last one
\* asked for a retry, and of the following position when it returned
\* remainingAttempts <= 0; no position is invoked again once left.
C27_PositionsInOrder ==
  \A j \in 1..Len(resolverLog) :
    /\ resolverLog[j].index \in 0..(Len(errorResolvers) - 1)
    /\ j = 1 => resolverLog[j].index = 0
    /\ j > 1 =>
         /\ ~resolutionLog[j - 1].threw
         /\ resolverLog[j].index =
              IF resolutionLog[j - 1].retry THEN resolverLog[j - 1].index
              ELSE resolverLog[j - 1].index + 1
C27_Witness ==
  /\ Len(resolverLog) >= 3 /\ Len(errorResolvers) >= 3
  /\ resolverLog[1].index = 0 /\ resolverLog[2].index = 1
  /\ resolverLog[3].index = 1 /\ pc = "done"

CustomInvocation(j) == errorResolvers[resolverLog[j].index + 1].kind = "custom"

\* The callback returned in the last step.
CallbackAnswered == lastAnswer # None /\ "callback" \in DOMAIN lastAnswer[1]

FilterRejected == lastAnswer = Some([filter |-> FALSE])

\* C30: a resolver whose filter does not match the error returns
\* remainingAttempts = -1 and unrecoverable = false in the same step, without
\* sleeping and without calling its callback; when it is the only resolver of
\* the chain and declined the first failure, the operation is invoked once.
C30_DeclineWithoutEffect ==
  FilterRejected =>
    /\ Len(resolutionLog) = Len(resolverLog)
    /\ ~resolutionLog[Len(resolutionLog)].threw
    /\ resolution = [remainingAttempts |-> -1, unrecoverable |-> FALSE,
                     context |-> [data |-> Undefined]]
    /\ pc \notin {"sleeping", "callback"}
    /\ (Len(errorResolvers) = 1 /\ Len(resolverLog) = 1) =>
         pc = "done" /\ OperationInvocations = 1

\* C31: once executeWithRetry has settled, the overall-timeout timer of the
\* run is not pending (it fired or was cleared); without an overallTimeout
\* (undefined or 0) no timer is armed at any time.
C31_TimerReleased ==
  /\ Settled => ~sig.timerArmed
  /\ overallTimeout = 0 => ~sig.timerArmed /\ ~sig.timeoutId /\ ~timerFired
C31_Witness ==
  /\ Settled /\ outcome.success
  /\ overallTimeout # 0 /\ ~timerFired /\ ~sig.externalAborted
  /\ sig.timeoutId /\ ~sig.timerArmed

\* No resolver invocation of the run ended by throwing.
NoResolverThrew == \A j \in 1..Len(resolutionLog) : ~resolutionLog[j].threw

\* C32: with an empty resolver chain and no cancellation a failing operation
\* is invoked once and the run fails with that error and totalAttempts = 1;
\* every run that fails without cancellation and without a resolver
\* exception reports the error raised by the last operation attempt.
C32_LastErrorSurfaced ==
  /\ (errorResolvers = << >> /\ NoCancellation /\ opLog # << >> /\ opLog[1] = "fail") =>
       /\ opLog = << "fail" >> /\ OperationInvocations = 1 /\ pc = "done"
       /\ Failed /\ outcome.error = OperationError(1)
       /\ outcome.state = "returned" => outcome.totalAttempts = Some(1)
  /\ (Failed /\ NoCancellation /\ NoResolverThrew) =>
       /\ opLog # << >> /\ opLog[Len(opLog)] = "fail"
       /\ OperationInvocations = Len(opLog)
       /\ outcome.error = OperationError(Len(opLog))

\* A step invokes a delayed resolver whose filter is absent or matches.
DelayedResolverAccepts ==
  /\ Len(resolverLog') > Len(resolverLog)
  /\ currentResolver.kind = "delay"
  /\ currentResolver.filter = "none" \/ lastAnswer' = Some([filter |-> TRUE])

\* C33: a delayed resolver whose filter is absent or matches sleeps and then
\* returns remainingAttempts = maxRetries - attempt, unrecoverable = false
\* and the context {data: undefined}, whatever the attempt and the error.
C33_DelayResolution ==
  [][/\ DelayedResolverAccepts => pc' = "sleeping"
     /\ pc = "sleeping" =>
          /\ Len(resolutionLog') = Len(resolverLog)
          /\ ~resolutionLog'[Len(resolutionLog')].threw
          /\ resolution' = [remainingAttempts |->
                              currentResolver.maxRetries - resolverRetries,
                            unrecoverable |-> FALSE,
                            context |-> [data |-> Undefined]]]_vars

\* C34: a run called with overallTimeout > 0 eventually settles, even when
\* an operation attempt never settles and whatever the external abort
\* signal does meanwhile.
C34_TimeoutLiveness == (overallTimeout # 0 /\ pc # "notStarted") ~> Settled

\* C35: the signal handed to the operation and the resolvers is aborted only
\* when the overall timeout has elapsed or the external signal has fired; in
\* a run where neither happened it sees no abort event, so listeners left on
\* it are not called, cleanup included.
C35_AbortedOnlyByCancellation ==
  NoCancellation => ~sig.mergedAborted /\ sig.abortEvents = 0

RECURSIVE InvocationBudget(_)
InvocationBudget(chain) ==
  IF chain = << >> THEN 0
  ELSE (IF chain[1].maxRetries > 0 THEN chain[1].maxRetries ELSE 0) + 1
         + InvocationBudget(Tail(chain))

AllDelayed == \A i \in DOMAIN errorResolvers : errorResolvers[i].kind = "delay"

\* C37 as stated: under a chain of delayed resolvers, with every operation
\* attempt settling, a run that was called settles, after at most the sum
\* over the positions of max(maxRetries, 0) + 1 operation invocations.
C37_TerminationAsStated ==
  /\ [](AllDelayed => OperationInvocations <= InvocationBudget(errorResolvers))
  /\ (AllDelayed /\ pc # "notStarted") ~> Settled

\* C37 amended: the same, with one invocation at least in the bound: under
\* the empty chain the operation is invoked once.
C37_Termination ==
  /\ [](AllDelayed =>
          OperationInvocations <=
            IF errorResolvers = << >> THEN 1 ELSE InvocationBudget(errorResolvers))
  /\ (AllDelayed /\ pc # "notStarted") ~> Settled
C37_Witness ==
  /\ AllDelayed /\ Settled /\ overallTimeout = 0 /\ externalAbortSignal = Undefined
  /\ Len(errorResolvers) = 1 /\ errorResolvers[1].maxRetries = MaxRetries
  /\ OperationInvocations = InvocationBudget(errorResolvers)

\* C38: the throw after handleRetry's outer loop is never reached, whatever
\* the chain, the operation's outcomes and the resolvers' resolutions; at
\* every invocation of the operation remainingAttempts > 0, so that the
\* catch block never finds remainingAttempts = 0.
C38_LoopExitUnreachable ==
  /\ handled.error # UnexpectedExitError
  /\ outcome.error # UnexpectedExitError
  /\ pc = "operation" => Positive(remainingAttempts)
  /\ handled.via = "noResolver" => currentResolver = NoResolver
====
